---- MODULE Spec2Model ----
(***************************************************************************)
(* A model of gene-code: the stack machine of src/src/lang.rs, the         *)
(* evolution engine (Pool) of src/src/gene.rs and the program gene of      *)
(* src/src/prog_gene.rs.                                                   *)
(*                                                                         *)
(* Five specifications share the module.  SpecStack drives one lang::Stack *)
(* through push, pop and run; SpecProg drives one through queue_program,   *)
(* run_next, run_all and run_until; SpecPool drives one gene::Pool of      *)
(* TestGene (the gene type of gene.rs's own tests) through Pool::new,      *)
(* evolve and get_best, and SpecSeed does the same while it keeps the      *)
(* values drawn from the random source; SpecFn makes single calls of       *)
(* Stack::run, of ProgramGene's cross, mutate and fmt, and of fitness.     *)
(* A panic of the Rust program is the flag `fault` (stack machine),        *)
(* `pfault` (pool) or `call.fault` (a single call): once it is set,        *)
(* nothing more happens.                                                   *)
(***************************************************************************)
EXTENDS Integers, Sequences, FiniteSets

VARIABLES
    \* ---- lang::Stack --------------------------------------------------
    data,             \* Stack.data: the data stack, top at the end
    commands,         \* Stack.commands: pending Prog items, next at the end
    ret,              \* value returned by the last pop / run_all / run_until
    fault,            \* the stack machine panicked
    overflow_checks,  \* build profile: TRUE = arithmetic overflow panics
    queued,           \* history: Prog items handed to queue_program so far
    snap,             \* history: the stack as queue_program left it
    hist,             \* history: pushes onto an empty stack, then pops
    loaded,           \* history: the last queue_program and the run_next calls since
    stacked,          \* history: the last queue_program, what was pending under it
    width,            \* bits of the machine integer in this run
    \* ---- gene::Pool<TestGene, F> and a call of evolve in progress --------
    size,             \* the `size` Pool::new was called with
    fitness,          \* Pool.fitness: which fitness function the pool holds
    genes,            \* Pool.genes: sequence of [id, fit]
    back_genes,       \* Pool.back_genes
    NEXT_ID,          \* tests::NEXT_ID, the counter behind TestGene::generate
    pc,               \* where the pool is: "idle", or the phase of evolve
    len,              \* evolve's `len`
    total_fitness,    \* evolve's `total_fitness`
    num_selected,     \* evolve's `num_selected`
    i,                \* evolve's loop index `i` of the cross and mutate loops
    best,             \* what the last get_best returned, <<>> if none
    pfault,           \* the pool panicked
    gens,             \* history: calls of evolve so far
    old,              \* history: Pool.genes when the last evolve began
    rand,             \* history: the values drawn from the random source, if kept
    \* ---- one call of a function of lang.rs or prog_gene.rs ---------------
    call              \* the call in progress or just returned

stackVars == <<data, commands, ret, fault, overflow_checks, queued, snap, hist,
               loaded, stacked, width>>

poolVars == <<size, fitness, genes, back_genes, NEXT_ID, pc, len, total_fitness,
              num_selected, i, best, pfault, gens, old, rand>>

vars == <<stackVars, poolVars, call>>

(***************************************************************************)
(* Bounds of the model.                                                    *)
(***************************************************************************)
\* Width of the machine integer of the stack machine specifications.  The
\* program's i32 has 32 bits; the model keeps two's-complement arithmetic and
\* narrows the width so that the extreme values are reached.
Bits == 3
\* Longest data stack the direct operations (push, pop, run) are tried on.
MaxData == 3
\* Most Prog items handed to queue_program over the life of one stack.
MaxQueued == 2
\* Most Prog items handed to queue_program over the life of a stack that is
\* loaded again while items are pending.
MaxLayered == 4
\* Pops recorded on a stack that is already empty.
MaxExtraPops == 1
\* Largest `size` handed to Pool::new.
MaxSize == 8
\* Most calls of evolve on one pool.
MaxGens == 3
\* Most roulette draws (selected individuals) over the life of one pool.
MaxDraws == 4
\* Most roulette draws over the life of a pool whose draws are kept.
MaxSeedDraws == 2
\* Longest program rendered.
MaxShown == 4
\* Longest program handed to cross and mutate.
MaxProg == 3
\* Width of the machine integer of the specification of single calls: wide
\* enough for the sums and products of the inputs 0 .. 9 of `fitness`.
WideBits == 8

IntMin == -(2 ^ (width - 1))
IntMax == (2 ^ (width - 1)) - 1
Int32 == IntMin .. IntMax

(***************************************************************************)
(* Machine arithmetic.                                                     *)
(***************************************************************************)
InRange(x) == IntMin <= x /\ x <= IntMax

\* Two's-complement wrap-around of a mathematical integer.
Wrap(x) == ((x - IntMin) % (2 ^ width)) + IntMin

Abs(x) == IF x < 0 THEN -x ELSE x

\* Rust's integer division truncates toward zero (b # 0).
TruncDiv(a, b) ==
    IF (a >= 0) = (b > 0) THEN Abs(a) \div Abs(b) ELSE -(Abs(a) \div Abs(b))

\* The commands and the Prog items.
Commands == {"Add", "Sub", "Mult", "Div", "Dup", "Swap"}
ArithCommands == {"Add", "Sub", "Mult", "Div"}

D(v) == [cmd |-> "Lit", d |-> v]
C(c) == [cmd |-> c, d |-> 0]

\* The `match c { Add => a + b, ... }` of Stack::run: the mathematical
\* result, before it is fitted into the machine integer.
Exact(c, a, b) ==
    CASE c = "Add"  -> a + b
      [] c = "Sub"  -> a - b
      [] c = "Mult" -> a * b
      [] c = "Div"  -> IF b # 0 THEN TruncDiv(a, b) ELSE 0

\* Whether evaluating the arm panics: a quotient out of range panics in
\* every build ("attempt to divide with overflow"); a sum, difference or
\* product out of range panics when overflow checks are compiled in.
ArithPanics(c, a, b, checks) ==
    /\ ~InRange(Exact(c, a, b))
    /\ (c = "Div" \/ checks)

\* The value the arm yields when it does not panic.
ArithValue(c, a, b) == Wrap(Exact(c, a, b))

(***************************************************************************)
(* Stack operations as functions of a stack value                          *)
(*   s = [data, commands, fault].                                          *)
(***************************************************************************)
StackNew == [data |-> <<>>, commands |-> <<>>, fault |-> FALSE]

PushOp(s, d) == [s EXCEPT !.data = Append(s.data, d)]

\* Mutant of PopValue: reads the bottom of the stack instead of the top.
PopValueBottom(s) == IF s.data = <<>> THEN 0 ELSE s.data[1]

\* pop: the value, and the stack after it.
PopValue(s) == IF s.data = <<>> THEN 0 ELSE s.data[Len(s.data)]
PopRest(s) ==
    IF s.data = <<>> THEN s
    ELSE [s EXCEPT !.data = SubSeq(s.data, 1, Len(s.data) - 1)]

\* Mutant of RunOp: Swap pushes the operands back as they were.
RunOpSwapKeeps(s, c, checks) ==
    IF c \in ArithCommands THEN
        LET b  == PopValue(s)
            s1 == PopRest(s)
            a  == PopValue(s1)
            s2 == PopRest(s1)
        IN  IF ArithPanics(c, a, b, checks)
            THEN [s2 EXCEPT !.fault = TRUE]
            ELSE PushOp(s2, ArithValue(c, a, b))
    ELSE IF c = "Dup" THEN
        LET a  == PopValue(s)
            s1 == PopRest(s)
        IN  PushOp(PushOp(s1, a), a)
    ELSE
        LET b  == PopValue(s)
            s1 == PopRest(s)
            a  == PopValue(s1)
            s2 == PopRest(s1)
        IN  PushOp(PushOp(s2, a), b)

RunOp(s, c, checks) ==
    IF c \in ArithCommands THEN
        LET b  == PopValue(s)
            s1 == PopRest(s)
            a  == PopValue(s1)
            s2 == PopRest(s1)
        IN  IF ArithPanics(c, a, b, checks)
            THEN [s2 EXCEPT !.fault = TRUE]
            ELSE PushOp(s2, ArithValue(c, a, b))
    ELSE IF c = "Dup" THEN
        LET a  == PopValue(s)
            s1 == PopRest(s)
        IN  PushOp(PushOp(s1, a), a)
    ELSE
        LET b  == PopValue(s)
            s1 == PopRest(s)
            a  == PopValue(s1)
            s2 == PopRest(s1)
        IN  PushOp(PushOp(s2, b), a)

Reverse(q) == [j \in 1 .. Len(q) |-> q[Len(q) + 1 - j]]

\* Mutant of QueueProgramOp: the program is put beneath the pending items.
QueueProgramBelow(s, program) ==
    [s EXCEPT !.commands = Reverse(program) \o s.commands]

\* Mutant of QueueProgramOp: the program is copied without `.rev()`.
QueueProgramNoRev(s, program) ==
    [s EXCEPT !.commands = s.commands \o program]

QueueProgramOp(s, program) ==
    [s EXCEPT !.commands = s.commands \o Reverse(program)]

RunNextOp(s, checks) ==
    IF s.commands = <<>> THEN s
    ELSE
        LET p  == s.commands[Len(s.commands)]
            s1 == [s EXCEPT !.commands = SubSeq(s.commands, 1, Len(s.commands) - 1)]
        IN  IF p.cmd = "Lit" THEN PushOp(s1, p.d) ELSE RunOp(s1, p.cmd, checks)

\* Mutant of RunUntilLoop: takes the next item off the command stack before
\* it looks at the step limit, so the item at the limit is lost.
RECURSIVE RunUntilLoopDrop(_, _, _, _)
RunUntilLoopDrop(s, steps, max, checks) ==
    IF s.fault \/ s.commands = <<>>
    THEN [s |-> s, steps |-> steps]
    ELSE IF ~(steps < max)
    THEN [s |-> [s EXCEPT !.commands = SubSeq(s.commands, 1, Len(s.commands) - 1)],
          steps |-> steps]
    ELSE RunUntilLoopDrop(RunNextOp(s, checks), steps + 1, max, checks)

\* The loop of run_until from the point where `steps` steps were taken;
\* a panic inside run_next ends it.  The result is [s, steps].
RECURSIVE RunUntilLoop(_, _, _, _)
RunUntilLoop(s, steps, max, checks) ==
    IF s.fault \/ ~(steps < max /\ s.commands # <<>>)
    THEN [s |-> s, steps |-> steps]
    ELSE RunUntilLoop(RunNextOp(s, checks), steps + 1, max, checks)

RunUntilOp(s, max, checks) == RunUntilLoop(s, 0, max, checks)

\* The loop of run_all.
RECURSIVE RunAllLoop(_, _, _)
RunAllLoop(s, steps, checks) ==
    IF s.fault \/ s.commands = <<>>
    THEN [s |-> s, steps |-> steps]
    ELSE RunAllLoop(RunNextOp(s, checks), steps + 1, checks)

RunAllOp(s, checks) == RunAllLoop(s, 0, checks)

(***************************************************************************)
(* Inputs.                                                                 *)
(***************************************************************************)
\* Values handed to push.
PushVals == {IntMin, -1, 0, 2, IntMax}

\* Literals of the programs handed to queue_program (rand_prog draws its
\* literals from -10 .. 10).
ProgLits == {-1, 2}
ProgItems == {D(v) : v \in ProgLits} \cup {C(c) : c \in Commands}

\* All sequences over S of length at most n.
SeqsUpTo(S, n) == UNION {[1 .. k -> S] : k \in 0 .. n}

\* Data stacks the caller has built by pushes before it loads a program.
InitStacks == {<<>>, <<2>>, <<IntMin, -1>>, <<IntMax, 2, 3>>}

(***************************************************************************)
(* The stack machine as a state machine.                                   *)
(***************************************************************************)
Cur == [data |-> data, commands |-> commands, fault |-> fault]

NoSnap == [phase |-> "none", s |-> StackNew]
NoHist == [ok |-> FALSE, pushes |-> <<>>, pops |-> <<>>]
NoLoad == [ok |-> FALSE, pre |-> <<>>, prog |-> <<>>, n |-> 0]
NoStacked == [pre |-> <<>>, prog |-> <<>>, under |-> <<>>, n |-> 0]
NoCall == [fn |-> "none"]
NoRand == [on |-> FALSE, draws |-> <<>>]
FreshHist == [ok |-> TRUE, pushes |-> <<>>, pops |-> <<>>]

\* No pool has been built.
NoPool ==
    /\ size = 0 /\ fitness = "zero" /\ genes = <<>> /\ back_genes = <<>>
    /\ NEXT_ID = 1 /\ pc = "idle" /\ len = 0 /\ total_fitness = 0
    /\ num_selected = 0 /\ i = 0 /\ best = <<>> /\ pfault = FALSE
    /\ gens = 0 /\ old = <<>>
    /\ rand = NoRand
    /\ call = NoCall

\* The items the history `stacked` still expects to be executed, next first:
\* the program of the last queue_program and then what was pending under it,
\* less the steps taken since.
StillDue(h) == SubSeq(h.prog \o h.under, h.n + 1, Len(h.prog) + Len(h.under))

\* The history after `steps` more steps were taken.
Stepped(h, steps) ==
    [h EXCEPT !.n = IF @ + steps <= Len(h.prog) + Len(h.under)
                     THEN @ + steps
                     ELSE Len(h.prog) + Len(h.under)]

\* Stack::new, in either build profile.
InitStack ==
    /\ width = Bits
    /\ NoPool
    /\ data = <<>>
    /\ commands = <<>>
    /\ ret = 0
    /\ fault = FALSE
    /\ overflow_checks \in BOOLEAN
    /\ queued = 0
    /\ snap = NoSnap
    /\ hist = FreshHist
    /\ loaded = NoLoad
    /\ stacked = NoStacked

\* Stack::push(d)
Push(d) ==
    /\ ~fault
    /\ Len(data) < MaxData
    /\ data' = PushOp(Cur, d).data
    /\ ret' = 0
    /\ hist' = IF hist.ok /\ hist.pops = <<>>
                THEN [hist EXCEPT !.pushes = Append(@, d)]
                ELSE IF data = <<>>
                THEN [ok |-> TRUE, pushes |-> <<d>>, pops |-> <<>>]
                ELSE NoHist
    /\ snap' = NoSnap
    /\ UNCHANGED <<commands, fault, overflow_checks, queued, loaded, stacked, width, poolVars, call>>

\* Stack::pop()
Pop ==
    /\ ~fault
    /\ data # <<>> \/ ~hist.ok
            \/ Len(hist.pops) < Len(hist.pushes) + MaxExtraPops
    /\ data' = PopRest(Cur).data
    /\ ret' = PopValue(Cur)
    /\ hist' = IF hist.ok
                THEN [hist EXCEPT !.pops = Append(@, PopValue(Cur))]
                ELSE IF data = <<>>
                THEN [ok |-> TRUE, pushes |-> <<>>, pops |-> <<PopValue(Cur)>>]
                ELSE NoHist
    /\ snap' = NoSnap
    /\ UNCHANGED <<commands, fault, overflow_checks, queued, loaded, stacked, width, poolVars, call>>

\* Stack::run(c)
Run(c) ==
    /\ ~fault
    /\ Len(RunOp(Cur, c, overflow_checks).data) <= MaxData
    /\ data' = RunOp(Cur, c, overflow_checks).data
    /\ fault' = RunOp(Cur, c, overflow_checks).fault
    /\ ret' = 0
    /\ hist' = NoHist
    /\ snap' = NoSnap
    /\ UNCHANGED <<commands, overflow_checks, queued, loaded, stacked, width, poolVars, call>>

NextStack ==
    \/ \E d \in PushVals : Push(d)
    \/ Pop
    \/ \E c \in Commands : Run(c)

SpecStack == InitStack /\ [][NextStack]_vars

\* A stack on which the caller has pushed some inputs and nothing else.
InitProg ==
    /\ width = Bits
    /\ NoPool
    /\ data \in InitStacks
    /\ commands = <<>>
    /\ ret = 0
    /\ fault = FALSE
    /\ overflow_checks \in BOOLEAN
    /\ queued = 0
    /\ snap = NoSnap
    /\ hist = NoHist
    /\ loaded = NoLoad
    /\ stacked = NoStacked

\* Stack::queue_program(program)
QueueProgram(program) ==
    /\ ~fault
    /\ commands' = QueueProgramOp(Cur, program).commands
    /\ data' = QueueProgramOp(Cur, program).data
    /\ ret' = 0
    /\ queued' = queued + Len(program)
    /\ snap' = [phase |-> "loaded", s |-> QueueProgramOp(Cur, program)]
    /\ loaded' = IF commands = <<>>
                  THEN [ok |-> TRUE, pre |-> data, prog |-> program, n |-> 0]
                  ELSE NoLoad
    /\ stacked' = [pre |-> data, prog |-> program, under |-> StillDue(stacked), n |-> 0]
    /\ UNCHANGED <<fault, overflow_checks, hist, width, poolVars, call>>

\* Stack::run_next()
RunNext ==
    /\ ~fault
    /\ data' = RunNextOp(Cur, overflow_checks).data
    /\ commands' = RunNextOp(Cur, overflow_checks).commands
    /\ fault' = RunNextOp(Cur, overflow_checks).fault
    /\ ret' = 0
    /\ snap' = NoSnap
    /\ loaded' = IF loaded.ok /\ loaded.n <= Len(loaded.prog)
                  THEN [loaded EXCEPT !.n = @ + 1]
                  ELSE NoLoad
    /\ stacked' = Stepped(stacked, 1)
    /\ UNCHANGED <<overflow_checks, queued, hist, width, poolVars, call>>

\* Stack::run_all()
RunAll ==
    /\ ~fault
    /\ LET r == RunAllOp(Cur, overflow_checks)
       IN  /\ data' = r.s.data
           /\ commands' = r.s.commands
           /\ fault' = r.s.fault
           /\ ret' = r.steps
    /\ snap' = IF snap.phase \in {"split", "done"}
                THEN [snap EXCEPT !.phase = "done"]
                ELSE NoSnap
    /\ loaded' = NoLoad
    /\ stacked' = Stepped(stacked, ret')
    /\ UNCHANGED <<overflow_checks, queued, hist, width, poolVars, call>>

\* Stack::run_until(max)
RunUntil(max) ==
    /\ ~fault
    /\ LET r == RunUntilOp(Cur, max, overflow_checks)
       IN  /\ data' = r.s.data
           /\ commands' = r.s.commands
           /\ fault' = r.s.fault
           /\ ret' = r.steps
           /\ snap' = IF snap.phase \in {"loaded", "split"}
                       THEN [snap EXCEPT !.phase = "split"]
                       ELSE snap
    /\ loaded' = NoLoad
    /\ stacked' = Stepped(stacked, ret')
    /\ UNCHANGED <<overflow_checks, queued, hist, width, poolVars, call>>

NextProg ==
    \/ \E program \in SeqsUpTo(ProgItems, MaxQueued - queued) : QueueProgram(program)
    \/ RunNext
    \/ RunAll
    \/ \E max \in 0 .. MaxQueued + 1 : RunUntil(max)

SpecProg == InitProg /\ [][NextProg]_vars

\* Programs loaded on top of programs: fewer kinds of item, more of them.
LayerItems == {D(-1), D(2), C("Sub")}

\* A new stack, or one with one input pushed.
InitLayer ==
    /\ InitProg
    /\ Len(data) <= 1

NextLayer ==
    \/ \E program \in SeqsUpTo(LayerItems, MaxLayered - queued) \ {<<>>} :
           QueueProgram(program)
    \/ RunNext
    \/ RunAll
    \/ \E max \in 1 .. MaxLayered - 1 : RunUntil(max)

SpecLayer == InitLayer /\ [][NextLayer]_vars

(***************************************************************************)
(* The evolution engine: gene::Pool over TestGene.                         *)
(*                                                                         *)
(* A gene is its `id`; an individual is [id, fit].  Fitness values are     *)
(* f32 in the program and integers here: every fitness function below      *)
(* takes whole values small enough for f32 to add and subtract exactly.    *)
(***************************************************************************)

\* TestGene::mutate and TestGene::cross (generate is in GenerateStep: it
\* reads and advances NEXT_ID).  Within MaxGens generations the ids stay
\* inside i32, so the i32 arithmetic of the two is exact.
Mutate(id) == -id
Cross(id, other) == id * 100 + other

\* The fitness functions a pool is built with: g.id as f32 (the closure of
\* tests::gen_pool), the constant 0, |g.id| % 3, and 1 for the gene of id 1
\* and 0 for every other.
FitnessKinds == {"id", "zero", "mod3", "one"}

Fitness(kind, id) ==
    CASE kind = "id"   -> id
      [] kind = "zero" -> 0
      [] kind = "mod3" -> Abs(id) % 3
      [] kind = "one"  -> IF id = 1 THEN 1 ELSE 0

\* Mutant of Scored: the fitness function is not pure, it counts the
\* generations that have gone by into the score.
ScoredAged(kind, id) == [id |-> id, fit |-> Fitness(kind, id) + gens]

\* (gene, (self.fitness)(&gene))
Scored(kind, id) == [id |-> id, fit |-> Fitness(kind, id)]

\* Pool::new: `size` genes generated in turn, each scored at once.
PoolNew(n, kind) == [k \in 1 .. n |-> Scored(kind, k)]

\* Mutant of Quarter: half of the pool, as the comment above evolve has it.
QuarterAsHalf(n) == n \div 2

\* The share of the pool evolve selects: len / 4.
Quarter(n) == n \div 4

RECURSIVE SumFit(_, _)
SumFit(pairs, k) == IF k = 0 THEN 0 ELSE SumFit(pairs, k - 1) + pairs[k].fit

\* The sum of the fitness of all pairs.
TotalFitness(pairs) == SumFit(pairs, Len(pairs))

\* rng.gen_range(0.0, total_fitness) panics unless 0.0 < total_fitness.
GenRangePanics(low, high) == ~(low < high)

\* The values gen_range(0.0, total) is drawn from, in halves (h stands for
\* h / 2).  The walk below compares the draw with the sums of the first k
\* fitness values only, so of the reals in [0, total) it is enough to draw
\* 0, every such sum and a value just above it.
Draws(pairs, total) ==
    {h \in {0} \cup {2 * SumFit(pairs, k) + e : k \in 1 .. Len(pairs), e \in {0, 1}} :
        0 <= h /\ h < 2 * total}

\* The roulette walk: `f -= back_genes[i].1; while f > 0.0 { i = (i + 1) %
\* len; f -= back_genes[i].1 }` from index k on (1-based), f in halves.
RECURSIVE Walk(_, _, _)
Walk(pairs, k, f) ==
    LET g == f - 2 * pairs[k].fit
    IN  IF g > 0 THEN Walk(pairs, (k % Len(pairs)) + 1, g) ELSE k

\* Mutant of Remove: the element is copied out and stays in the sequence.
RemoveNothing(q, k) == q

\* Vec::remove(i): the sequence without its k-th element (1-based).
Remove(q, k) == SubSeq(q, 1, k - 1) \o SubSeq(q, k + 1, Len(q))

\* Mutant of Partners: the partner is drawn from the whole pool length.
PartnersOfLen(n) == 0 .. (n - 1)

\* The partners gen_range(0, len / 4) draws from (0-based).
Partners(n) == 0 .. (Quarter(n) - 1)

\* Mutant of CrossedPair: the child keeps the fitness of genes[i].
CrossedPairStale(kind, pairs, k, with) ==
    [id |-> Cross(pairs[k].id, pairs[with].id), fit |-> pairs[k].fit]

\* The pair pushed by the cross loop for genes[i] and genes[with_i].
CrossedPair(kind, pairs, k, with) ==
    Scored(kind, Cross(pairs[k].id, pairs[with].id))

\* The pair pushed by the mutate loop for genes[i].
MutatedPair(kind, pairs, k) == Scored(kind, Mutate(pairs[k].id))

\* Mutant of BestFrom: `>=` for `>`, so the last of equals wins.
RECURSIVE BestFromLast(_, _, _)
BestFromLast(pairs, k, b) ==
    IF k > Len(pairs) THEN b
    ELSE BestFromLast(pairs, k + 1, IF pairs[k].fit >= pairs[b].fit THEN k ELSE b)

\* The loop of get_best from index k on, `b` the index of `best` so far.
RECURSIVE BestFrom(_, _, _)
BestFrom(pairs, k, b) ==
    IF k > Len(pairs) THEN b
    ELSE BestFrom(pairs, k + 1, IF pairs[k].fit > pairs[b].fit THEN k ELSE b)

\* The index get_best settles on (the pool is not empty).
BestIndex(pairs) == BestFrom(pairs, 1, 1)

\* No stack is in use.
NoStack ==
    /\ data = <<>> /\ commands = <<>> /\ ret = 0 /\ fault = FALSE
    /\ overflow_checks = FALSE /\ queued = 0 /\ snap = NoSnap /\ hist = NoHist
    /\ loaded = NoLoad /\ stacked = NoStacked /\ width = Bits

\* Pool::new(size, fitness, rng) has returned.
InitPool ==
    /\ NoStack
    /\ call = NoCall
    /\ size \in 0 .. MaxSize
    /\ fitness \in FitnessKinds
    /\ genes = PoolNew(size, fitness)
    /\ back_genes = <<>>
    /\ NEXT_ID = size + 1
    /\ pc = "idle"
    /\ len = 0 /\ total_fitness = 0 /\ num_selected = 0 /\ i = 0
    /\ best = <<>>
    /\ pfault = FALSE
    /\ gens = 0
    /\ old = <<>>
    /\ rand = NoRand

\* The history of draws after one more value was drawn.
Drawn(v) == IF rand.on THEN [rand EXCEPT !.draws = Append(@, v)] ELSE rand

\* evolve, lines 80-93: take the length, swap the buffers, sum the fitness,
\* clear the new pool.
EvolveBegin ==
    /\ pc = "idle" /\ ~pfault
    /\ gens < MaxGens
    /\ (gens + 1) * Quarter(Len(genes)) <= MaxDraws
    /\ rand.on => (gens + 1) * Quarter(Len(genes)) <= MaxSeedDraws
    /\ len' = Len(genes)
    /\ back_genes' = genes
    /\ total_fitness' = TotalFitness(genes)
    /\ genes' = <<>>
    /\ old' = genes
    /\ gens' = gens + 1
    /\ best' = <<>>
    /\ pc' = "select"
    /\ UNCHANGED <<stackVars, call, rand, size, fitness, NEXT_ID, num_selected, i, pfault>>

\* One turn of the selection loop, lines 94-108.
SelectStep ==
    /\ pc = "select" /\ ~pfault
    /\ Len(genes) < Quarter(len) /\ back_genes # <<>>
    /\ IF GenRangePanics(0, total_fitness)
       THEN /\ pfault' = TRUE
            /\ UNCHANGED <<genes, back_genes, total_fitness, rand>>
       ELSE \E f \in Draws(back_genes, total_fitness) :
                LET k == Walk(back_genes, 1, f)
                IN  /\ total_fitness' = total_fitness - back_genes[k].fit
                    /\ genes' = Append(genes, back_genes[k])
                    /\ back_genes' = Remove(back_genes, k)
                    /\ rand' = Drawn(f)
                    /\ UNCHANGED pfault
    /\ UNCHANGED <<stackVars, call, size, fitness, NEXT_ID, pc, len, num_selected, i, best, gens, old>>

\* The selection loop ends, line 110.
SelectDone ==
    /\ pc = "select" /\ ~pfault
    /\ ~(Len(genes) < Quarter(len) /\ back_genes # <<>>)
    /\ num_selected' = Len(genes)
    /\ i' = 0
    /\ pc' = "cross"
    /\ UNCHANGED <<stackVars, call, rand, size, fitness, genes, back_genes, NEXT_ID, len, total_fitness,
                   best, pfault, gens, old>>

\* One turn of the cross loop, lines 113-119.  gen_range(0, len / 4) panics
\* on an empty range and genes[with_i] on an index past the end.
CrossStep ==
    /\ pc = "cross" /\ ~pfault
    /\ i < num_selected
    /\ IF GenRangePanics(0, Quarter(len))
       THEN pfault' = TRUE /\ UNCHANGED <<genes, i, rand>>
       ELSE \E with_i \in Partners(len) :
                /\ rand' = Drawn(with_i)
                /\ IF with_i + 1 > Len(genes) \/ i + 1 > Len(genes)
                   THEN pfault' = TRUE /\ UNCHANGED <<genes, i>>
                   ELSE /\ genes' = Append(genes, CrossedPair(fitness, genes, i + 1, with_i + 1))
                        /\ i' = i + 1
                        /\ UNCHANGED pfault
    /\ UNCHANGED <<stackVars, call, size, fitness, back_genes, NEXT_ID, pc, len, total_fitness,
                   num_selected, best, gens, old>>

\* The cross loop ends.
CrossDone ==
    /\ pc = "cross" /\ ~pfault
    /\ ~(i < num_selected)
    /\ i' = 0
    /\ pc' = "mutate"
    /\ UNCHANGED <<stackVars, call, rand, size, fitness, genes, back_genes, NEXT_ID, len, total_fitness,
                   num_selected, best, pfault, gens, old>>

\* One turn of the mutate loop, lines 122-126.
MutateStep ==
    /\ pc = "mutate" /\ ~pfault
    /\ i < num_selected
    /\ IF i + 1 > Len(genes)
       THEN pfault' = TRUE /\ UNCHANGED <<genes, i>>
       ELSE /\ genes' = Append(genes, MutatedPair(fitness, genes, i + 1))
            /\ i' = i + 1
            /\ UNCHANGED pfault
    /\ UNCHANGED <<stackVars, call, rand, size, fitness, back_genes, NEXT_ID, pc, len, total_fitness,
                   num_selected, best, gens, old>>

\* The mutate loop ends.
MutateDone ==
    /\ pc = "mutate" /\ ~pfault
    /\ ~(i < num_selected)
    /\ i' = 0
    /\ pc' = "generate"
    /\ UNCHANGED <<stackVars, call, rand, size, fitness, genes, back_genes, NEXT_ID, len, total_fitness,
                   num_selected, best, pfault, gens, old>>

\* One turn of the replenishing loop, lines 129-133, with
\* TestGene::generate: the new gene's id is NEXT_ID, which moves on.
GenerateStep ==
    /\ pc = "generate" /\ ~pfault
    /\ Len(genes) < len
    /\ genes' = Append(genes, Scored(fitness, NEXT_ID))
    /\ NEXT_ID' = NEXT_ID + 1
    /\ UNCHANGED <<stackVars, call, rand, size, fitness, back_genes, pc, len, total_fitness, num_selected,
                   i, best, pfault, gens, old>>

\* evolve returns; its locals are gone.
EvolveReturn ==
    /\ pc = "generate" /\ ~pfault
    /\ ~(Len(genes) < len)
    /\ pc' = "idle"
    /\ len' = 0 /\ total_fitness' = 0 /\ num_selected' = 0 /\ i' = 0
    /\ UNCHANGED <<stackVars, call, rand, size, fitness, genes, back_genes, NEXT_ID, best, pfault, gens, old>>

\* Pool::get_best: `&self.genes[0]` panics on an empty pool.
GetBest ==
    /\ pc = "idle" /\ ~pfault
    /\ best = <<>>
    /\ IF genes = <<>>
       THEN pfault' = TRUE /\ UNCHANGED best
       ELSE /\ best' = <<BestIndex(genes), genes[BestIndex(genes)].id>>
            /\ UNCHANGED pfault
    /\ UNCHANGED <<stackVars, call, rand, size, fitness, genes, back_genes, NEXT_ID, pc, len, total_fitness,
                   num_selected, i, gens, old>>

NextPool ==
    \/ EvolveBegin
    \/ SelectStep
    \/ SelectDone
    \/ CrossStep
    \/ CrossDone
    \/ MutateStep
    \/ MutateDone
    \/ GenerateStep
    \/ EvolveReturn
    \/ GetBest

SpecPool == InitPool /\ [][NextPool]_vars

\* Pool::new(size, fitness, rng) has returned, size >= 4, and from here on
\* the values drawn from rng are kept.
InitSeed ==
    /\ NoStack
    /\ call = NoCall
    /\ gens = 0
    /\ size \in 4 .. MaxSize
    /\ fitness \in FitnessKinds
    /\ genes = PoolNew(size, fitness)
    /\ back_genes = <<>>
    /\ NEXT_ID = size + 1
    /\ pc = "idle"
    /\ len = 0 /\ total_fitness = 0 /\ num_selected = 0 /\ i = 0
    /\ best = <<>>
    /\ pfault = FALSE
    /\ old = <<>>
    /\ rand = [on |-> TRUE, draws |-> <<>>]

SpecSeed == InitSeed /\ [][NextPool]_vars

(***************************************************************************)
(* Pool::new and evolve as one function of the size, the fitness function  *)
(* and the sequence of values drawn: r = [genes, back, total, next, draws, *)
(* fault], `draws` the values not yet drawn, `next` the id generate gives  *)
(* out next.                                                               *)
(***************************************************************************)

\* The selection loop, lines 94-108.
RECURSIVE ReplaySelect(_, _)
ReplaySelect(r, q) ==
    IF r.fault \/ ~(Len(r.genes) < q /\ r.back # <<>>) THEN r
    ELSE IF GenRangePanics(0, r.total) \/ r.draws = <<>> THEN [r EXCEPT !.fault = TRUE]
    ELSE LET k == Walk(r.back, 1, Head(r.draws))
         IN  ReplaySelect([r EXCEPT !.genes = Append(@, r.back[k]),
                                    !.back = Remove(@, k),
                                    !.total = @ - r.back[k].fit,
                                    !.draws = Tail(@)], q)

\* The cross loop from index j on, lines 113-119.
RECURSIVE ReplayCross(_, _, _, _, _)
ReplayCross(r, kind, n, selected, j) ==
    IF r.fault \/ ~(j < selected) THEN r
    ELSE IF GenRangePanics(0, Quarter(n)) \/ r.draws = <<>> THEN [r EXCEPT !.fault = TRUE]
    ELSE LET with_i == Head(r.draws)
         IN  IF with_i + 1 > Len(r.genes) \/ j + 1 > Len(r.genes)
             THEN [r EXCEPT !.fault = TRUE]
             ELSE ReplayCross([r EXCEPT !.genes = Append(@, CrossedPair(kind, r.genes, j + 1, with_i + 1)),
                                        !.draws = Tail(@)],
                              kind, n, selected, j + 1)

\* The mutate loop from index j on, lines 122-126.
RECURSIVE ReplayMutate(_, _, _, _)
ReplayMutate(r, kind, selected, j) ==
    IF r.fault \/ ~(j < selected) THEN r
    ELSE IF j + 1 > Len(r.genes) THEN [r EXCEPT !.fault = TRUE]
    ELSE ReplayMutate([r EXCEPT !.genes = Append(@, MutatedPair(kind, r.genes, j + 1))],
                      kind, selected, j + 1)

\* The replenishing loop, lines 129-133.
RECURSIVE ReplayGenerate(_, _, _)
ReplayGenerate(r, kind, n) ==
    IF r.fault \/ ~(Len(r.genes) < n) THEN r
    ELSE ReplayGenerate([r EXCEPT !.genes = Append(@, Scored(kind, r.next)),
                                  !.next = @ + 1], kind, n)

\* One call of evolve.
EvolveFn(r, kind) ==
    LET n  == Len(r.genes)
        r0 == [r EXCEPT !.back = r.genes, !.total = TotalFitness(r.genes), !.genes = <<>>]
        r1 == ReplaySelect(r0, Quarter(n))
        r2 == ReplayCross(r1, kind, n, Len(r1.genes), 0)
        r3 == ReplayMutate(r2, kind, Len(r1.genes), 0)
    IN  ReplayGenerate(r3, kind, n)

\* Pool::new(n, kind, rng) followed by g calls of evolve that draw `draws`.
RECURSIVE Replay(_, _, _, _)
Replay(n, kind, g, draws) ==
    IF g = 0
    THEN [genes |-> PoolNew(n, kind), back |-> <<>>, total |-> 0, next |-> n + 1,
          draws |-> draws, fault |-> FALSE]
    ELSE EvolveFn(Replay(n, kind, g - 1, draws), kind)

(***************************************************************************)
(* Single calls of the functions of lang.rs and prog_gene.rs.  `call`      *)
(* holds the function called, its arguments, the values drawn from the     *)
(* random source and what the call has produced.                           *)
(***************************************************************************)

\* Values on the data stacks `run` is called on.
RunVals == {-1, 0, 2}

\* No pool, a stack nobody uses, and no call made yet.
InitFn ==
    /\ width = WideBits
    /\ NoPool
    /\ data = <<>> /\ commands = <<>> /\ ret = 0 /\ fault = FALSE
    /\ overflow_checks \in BOOLEAN
    /\ queued = 0 /\ snap = NoSnap /\ hist = NoHist /\ loaded = NoLoad
    /\ stacked = NoStacked

\* Stack::run(c) on a stack whose data is d.
RunCall(d, c) ==
    /\ call.fn = "none"
    /\ call' = [fn |-> "run", self |-> d, arg |-> c,
                out |-> RunOp([data |-> d, commands |-> <<>>, fault |-> FALSE],
                              c, overflow_checks)]
    /\ UNCHANGED <<stackVars, poolVars>>

\* Items of the programs handed to cross as `self` and as `other`.
SelfItems == {D(1), C("Add")}
OtherItems == {D(-10), C("Swap")}

\* Mutant of UMax: the length as it is, without `.max(..)`.
UMaxLeft(a, b) == a

\* usize::max
UMax(a, b) == IF a >= b THEN a ELSE b

\* The values gen_range(low, high) draws from when it does not panic.
GenRange(low, high) == low .. (high - 1)

\* iter().take(n) and iter().skip(n)
Take(q, n) == SubSeq(q, 1, IF n <= Len(q) THEN n ELSE Len(q))
Skip(q, n) == SubSeq(q, (IF n <= Len(q) THEN n ELSE Len(q)) + 1, Len(q))

\* The program cross collects.
CrossProg(self, other, stop_self, start_other) ==
    Take(self, stop_self) \o Skip(other, start_other)

\* ProgramGene::cross(&self, other, rng)
CrossCall(self, other) ==
    /\ call.fn = "none"
    /\ IF GenRangePanics(0, UMax(Len(self), 1)) \/ GenRangePanics(0, UMax(Len(other), 1))
       THEN call' = [fn |-> "cross", self |-> self, other |-> other,
                     stop_self |-> 0, start_other |-> 0, out |-> <<>>, fault |-> TRUE]
       ELSE \E stop_self \in GenRange(0, UMax(Len(self), 1)),
               start_other \in GenRange(0, UMax(Len(other), 1)) :
                call' = [fn |-> "cross", self |-> self, other |-> other,
                         stop_self |-> stop_self, start_other |-> start_other,
                         out |-> CrossProg(self, other, stop_self, start_other),
                         fault |-> FALSE]
    /\ UNCHANGED <<stackVars, poolVars>>

\* rand_prog: `num` is the draw of rng.gen(), `lit` that of
\* gen_range(-10, 11), `k` that of gen_range(0, 6).
RandProg(num, lit, k) ==
    IF num THEN D(lit)
    ELSE CASE k = 0 -> C("Add")
           [] k = 1 -> C("Sub")
           [] k = 2 -> C("Mult")
           [] k = 3 -> C("Div")
           [] k = 4 -> C("Dup")
           [] OTHER -> C("Swap")

\* The literals drawn in the model: both ends of -10 .. 10.
LitDraws == {-10, 10}

\* What rand_prog returns over the draws of the model.
RandProgs ==
    {RandProg(TRUE, lit, 0) : lit \in LitDraws} \cup {RandProg(FALSE, 0, k) : k \in GenRange(0, 6)}

\* The programs mutate is called on: the beginnings of 1 + 1 + ...
MutateInputs ==
    {[j \in 1 .. n |-> IF j % 2 = 1 THEN D(1) ELSE C("Add")] : n \in 0 .. MaxProg}

\* Mutant of InsertRange: the index may be one past `result.len()`.
InsertRangeWide(q) == GenRange(0, Len(q) + 2)

\* The indices the Add arm draws from: gen_range(0, result.len()+1).
InsertRange(q) == GenRange(0, Len(q) + 1)

\* Vec::insert(i, x), Vec::remove(i) and `v[i] = x` panic on an index out
\* of bounds (0-based i).
InsertPanics(q, k) == k > Len(q)
IndexPanics(q, k) == k >= Len(q)

\* Vec::insert(i, x) and `v[i] = x` (0-based i, in bounds).
InsertAt(q, k, x) == SubSeq(q, 1, k) \o <<x>> \o SubSeq(q, k + 1, Len(q))
ReplaceAt(q, k, x) == [q EXCEPT ![k + 1] = x]

\* ProgramGene::mutate, lines 49-51: draw the number of modifications and
\* clone the program.
MutateBegin(self) ==
    /\ call.fn = "none"
    /\ IF GenRangePanics(1, UMax(Len(self), 2))
       THEN call' = [fn |-> "mutate", self |-> self, mods |-> 0, m |-> 0,
                     result |-> self, done |-> FALSE, fault |-> TRUE]
       ELSE \E mods \in GenRange(1, UMax(Len(self), 2)) :
                call' = [fn |-> "mutate", self |-> self, mods |-> mods, m |-> 0,
                         result |-> self, done |-> FALSE, fault |-> FALSE]
    /\ UNCHANGED <<stackVars, poolVars>>

\* A turn of the loop is due.
MutateTurn == call.fn = "mutate" /\ ~call.fault /\ ~call.done /\ call.m < call.mods

\* One turn of the loop, arm 0 (Add), lines 54-59.
MutateAdd ==
    /\ MutateTurn
    /\ \E prog \in RandProgs, k \in InsertRange(call.result) :
          IF InsertPanics(call.result, k)
          THEN call' = [call EXCEPT !.fault = TRUE]
          ELSE call' = [call EXCEPT !.result = InsertAt(@, k, prog), !.m = @ + 1]
    /\ UNCHANGED <<stackVars, poolVars>>

\* One turn of the loop, arm 1 (Delete), lines 60-66.
MutateDelete ==
    /\ MutateTurn
    /\ IF Len(call.result) > 0
       THEN \E k \in GenRange(0, Len(call.result)) :
                IF IndexPanics(call.result, k)
                THEN call' = [call EXCEPT !.fault = TRUE]
                ELSE call' = [call EXCEPT !.result = Remove(@, k + 1), !.m = @ + 1]
       ELSE call' = [call EXCEPT !.m = @ + 1]
    /\ UNCHANGED <<stackVars, poolVars>>

\* One turn of the loop, arm _ (Replace), lines 67-74.
MutateReplace ==
    /\ MutateTurn
    /\ IF Len(call.result) > 0
       THEN \E prog \in RandProgs, k \in GenRange(0, Len(call.result)) :
                IF IndexPanics(call.result, k)
                THEN call' = [call EXCEPT !.fault = TRUE]
                ELSE call' = [call EXCEPT !.result = ReplaceAt(@, k, prog), !.m = @ + 1]
       ELSE call' = [call EXCEPT !.m = @ + 1]
    /\ UNCHANGED <<stackVars, poolVars>>

\* The loop has ended: ProgramGene(result) is returned, line 77.
MutateReturn ==
    /\ call.fn = "mutate" /\ ~call.fault /\ ~call.done
    /\ ~(call.m < call.mods)
    /\ call' = [call EXCEPT !.done = TRUE]
    /\ UNCHANGED <<stackVars, poolVars>>

\* The step limit `fitness` hands to run_until.
StepCap == 10

\* The test cases of `fitness`: a and b in 0 .. 10, the end excluded.
Grid == GenRange(0, 10)

\* The reference functions `fitness` is called with: |a, b| a + b (the one
\* of tests::test_fitness) and |a, b| a * b.
RefKinds == {"add", "mult"}
RefFn(f, a, b) == IF f = "add" THEN a + b ELSE a * b

\* n times Dup.
Dups(n) == [j \in 1 .. n |-> C("Dup")]

\* The programs `fitness` is called on: the three of tests::test_fitness,
\* the empty program, programs that use both inputs or neither, one that
\* squares twice, and one of StepCap + 1 items (a generated program of 10
\* items with one more inserted by mutate).
FitnessProgs ==
    { <<C("Add")>>,
      <<C("Add")>> \o Dups(4),
      <<D(-1)>>,
      <<>>,
      <<C("Mult")>>,
      <<C("Swap"), C("Sub")>>,
      <<C("Dup"), C("Mult"), C("Dup"), C("Mult")>>,
      <<C("Add")>> \o Dups(StepCap - 1) \o <<D(-1)>> }

\* One test case, lines 128-134: a fresh stack, the inputs pushed, the
\* program queued and run for at most StepCap steps.
TrialEnd(g, a, b, checks) ==
    RunUntilOp(QueueProgramOp(PushOp(PushOp(StackNew, a), b), g), StepCap, checks).s

\* `successful` at the end of the loops: the test cases whose result, taken
\* by pop, is f(a, b).
Successful(f, g, checks) ==
    Cardinality({ab \in Grid \X Grid :
                    PopValue(TrialEnd(g, ab[1], ab[2], checks)) = RefFn(f, ab[1], ab[2])})

\* A test case panics inside run_until, and `fitness` with it.
FitnessPanics(g, checks) ==
    \E ab \in Grid \X Grid : TrialEnd(g, ab[1], ab[2], checks).fault

\* prog_gene::fitness(f, g) as far as `successful` and `total`.
FitnessCall(f, g) ==
    /\ call.fn = "none"
    /\ call' = IF FitnessPanics(g, overflow_checks)
               THEN [fn |-> "fitness", f |-> f, g |-> g, successful |-> 0, total |-> 0,
                     fault |-> TRUE]
               ELSE [fn |-> "fitness", f |-> f, g |-> g,
                     successful |-> Successful(f, g, overflow_checks),
                     total |-> Cardinality(Grid \X Grid), fault |-> FALSE]
    /\ UNCHANGED <<stackVars, poolVars>>

\* Text is a sequence of characters.
DigitChars == <<"0", "1", "2", "3", "4", "5", "6", "7", "8", "9">>

\* The decimal digits of n >= 0.
RECURSIVE DecDigits(_)
DecDigits(n) ==
    IF n < 10 THEN <<DigitChars[n + 1]>>
    ELSE DecDigits(n \div 10) \o <<DigitChars[(n % 10) + 1]>>

\* write!(f, "{}", d) for an i32.
FmtI32(d) == IF d < 0 THEN <<"-">> \o DecDigits(-d) ELSE DecDigits(d)

\* The arms of the match in fmt: what is written for one Prog item.
FmtProg(p) ==
    CASE p.cmd = "Lit"  -> FmtI32(p.d)
      [] p.cmd = "Add"  -> <<"+">>
      [] p.cmd = "Sub"  -> <<"-">>
      [] p.cmd = "Mult" -> <<"*">>
      [] p.cmd = "Div"  -> <<"/">>
      [] p.cmd = "Dup"  -> <<"d", "u", "p">>
      [] p.cmd = "Swap" -> <<"s", "w", "a", "p">>

\* Mutant of FmtFrom: the space is written after every item.
RECURSIVE FmtFromTrailing(_, _, _, _)
FmtFromTrailing(prog, k, add_space, out) ==
    IF k > Len(prog) THEN out
    ELSE FmtFromTrailing(prog, k + 1, TRUE, out \o FmtProg(prog[k]) \o <<" ">>)

\* The loop of fmt from item k on, `out` what was written so far.
RECURSIVE FmtFrom(_, _, _, _)
FmtFrom(prog, k, add_space, out) ==
    IF k > Len(prog) THEN out
    ELSE FmtFrom(prog, k + 1, TRUE,
                 (IF add_space THEN out \o <<" ">> ELSE out) \o FmtProg(prog[k]))

\* The literals and the items of the programs rendered.
ShownLits == {-30, 0, 1}
ShownItems == {D(v) : v \in ShownLits} \cup {C(c) : c \in Commands}

\* <ProgramGene as Display>::fmt
DisplayCall(self) ==
    /\ call.fn = "none"
    /\ call' = [fn |-> "display", self |-> self, out |-> FmtFrom(self, 1, FALSE, <<>>)]
    /\ UNCHANGED <<stackVars, poolVars>>

\* The arguments to choose from: S when a call can be made, else none.
Args(S) == IF call.fn = "none" THEN S ELSE {}

NextFn ==
    \/ \E d \in Args(SeqsUpTo(RunVals, MaxData)), c \in Commands : RunCall(d, c)
    \/ \E self \in Args(SeqsUpTo(SelfItems, MaxProg)), other \in SeqsUpTo(OtherItems, MaxProg) :
            CrossCall(self, other)
    \/ \E self \in Args(MutateInputs) : MutateBegin(self)
    \/ MutateAdd
    \/ MutateDelete
    \/ MutateReplace
    \/ MutateReturn
    \/ \E f \in Args(RefKinds), g \in FitnessProgs : FitnessCall(f, g)
    \/ \E self \in Args(SeqsUpTo(ShownItems, MaxShown)) : DisplayCall(self)

SpecFn == InitFn /\ [][NextFn]_vars

(***************************************************************************)
(* Properties of the evolution engine.                                     *)
(***************************************************************************)

\* How many times x occurs in the sequence q.
Count(q, x) == Cardinality({k \in 1 .. Len(q) : q[k] = x})

\* C1: whenever a pool built with size N >= 1 is between calls (after
\* Pool::new, before and after every evolve), it holds exactly N individuals.
C1_PoolSizeKept == (size >= 1 /\ pc = "idle") => Len(genes) = size

\* A pool of five or more has come back from its second evolve.
C1_Witness == pc = "idle" /\ ~pfault /\ gens >= 2 /\ size >= 5

\* C2: whenever the pool is between calls, every individual's stored
\* fitness is the fitness function applied to its gene.
C2_FitnessFresh ==
    pc = "idle" =>
        \A k \in 1 .. Len(genes) : genes[k].fit = Fitness(fitness, genes[k].id)

\* After an evolve that carried an individual of non-zero fitness over and
\* crossed it.
C2_Witness ==
    /\ pc = "idle" /\ ~pfault /\ gens >= 1 /\ size >= 4
    /\ genes[1].fit # 0
    /\ \E o \in 1 .. Len(old) : genes[1] = old[o]

\* C4: what get_best returned is the gene of an individual of the pool whose
\* stored fitness no individual exceeds and no earlier individual equals;
\* a pool built with size >= 1 does not fault between calls.
C4_GetBestFirstMax ==
    /\ best # <<>> =>
          /\ best[1] \in 1 .. Len(genes)
          /\ best[2] = genes[best[1]].id
          /\ \A j \in 1 .. Len(genes) : genes[j].fit <= genes[best[1]].fit
          /\ \A j \in 1 .. best[1] - 1 : genes[j].fit < genes[best[1]].fit
    /\ (size >= 1 /\ pc = "idle") => ~pfault

\* get_best returned an individual that is not the first of the pool and
\* that a later individual ties with.
C4_Witness ==
    /\ best # <<>>
    /\ best[1] > 1
    /\ \E j \in best[1] + 1 .. Len(genes) : genes[j].fit = genes[best[1]].fit

C6_SelectionWithoutReplacement ==
    (pc = "select" \/ (pc = "cross" /\ i = 0)) =>
        /\ Len(genes) + Len(back_genes) = Len(old)
        /\ \A o \in 1 .. Len(old) :
              Count(genes, old[o]) + Count(back_genes, old[o]) = Count(old, old[o])

\* The selection has ended with two individuals selected.
C6_Witness ==
    /\ pc = "cross" /\ i = 0 /\ ~pfault
    /\ num_selected >= 2
    /\ Len(genes) = 2

\* C7: an evolve of a pool of size N >= 4 whose individuals all have
\* fitness 0 does not fault, and returns with N individuals.
C7_ZeroFitnessEvolveCompletes ==
    (gens >= 1 /\ size >= 4 /\ \A o \in 1 .. Len(old) : old[o].fit = 0) =>
        /\ ~pfault
        /\ pc = "idle" => Len(genes) = size

\* C14: Pool::new does not hand out a pool of size 0: with size 0 it
\* faults, so no empty pool is ever there for evolve or get_best to be
\* called on.
C14_SizeZeroRejected == size = 0 => pfault

C20_EvolveInBounds ==
    (/\ gens >= 1
     /\ \A o \in 1 .. Len(old) : old[o].fit >= 0
     /\ TotalFitness(old) > 0) =>
        /\ ~pfault
        /\ pc = "select" => (Len(genes) < Quarter(len) => back_genes # <<>>)
        /\ pc \in {"cross", "mutate", "generate"} =>
              /\ num_selected = Quarter(len)
              /\ Len(genes) >= num_selected
              /\ i <= num_selected
        /\ (pc = "idle" /\ size \in 1 .. 3) =>
              /\ Len(genes) = size
              /\ \A k \in 1 .. size : genes[k].id = NEXT_ID - size + k - 1
              /\ \A k \in 1 .. size : \A o \in 1 .. Len(old) : genes[k].id # old[o].id

(***************************************************************************)
(* Properties of the stack machine.                                        *)
(***************************************************************************)

\* C3: once a loaded program was run in pieces by run_until and then
\* finished by run_all, the stack is exactly (data, pending items, panic)
\* what a single run_all leaves from the stack as queue_program left it,
\* and unless the program panicked nothing is pending.
C3_SplitRunEqualsRunAll ==
    snap.phase = "done" =>
        /\ Cur = RunAllOp(snap.s, overflow_checks).s
        /\ (~fault => commands = <<>>)

\* A program of two or more items was stopped strictly inside, then
\* finished, and changed the data stack.
C3_Witness ==
    /\ snap.phase = "done"
    /\ ~fault
    /\ 0 < ret /\ ret < Len(snap.s.commands)
    /\ data # snap.s.data

\* C8: no operation of the stack machine ever faults.
C8_NeverFaults == ~fault

\* C9: run(c) for c in Add, Sub, Mult, Div takes b from the top and a from
\* below it (0 for a missing operand), leaves the items below them alone and
\* pushes a op b in machine arithmetic, 0 for a division by 0; it does not
\* fault.
C9_ArithPushesResult ==
    [][\A c \in ArithCommands :
          Run(c) =>
              LET n    == Len(data)
                  b    == IF n >= 1 THEN data[n] ELSE 0
                  a    == IF n >= 2 THEN data[n - 1] ELSE 0
                  rest == SubSeq(data, 1, IF n >= 2 THEN n - 2 ELSE 0)
                  res  == IF c = "Div" /\ b = 0 THEN 0 ELSE ArithValue(c, a, b)
              IN  /\ ~fault'
                  /\ data' = Append(rest, res)]_vars

\* C10: while a stack that was empty has only been pushed to and then only
\* popped, the j-th pop returns the j-th last value pushed, a pop past the
\* last one returns 0, and what is left on the stack is the values not yet
\* popped; pop never faults.
C10_PopReversesPushes ==
    hist.ok =>
        LET n == Len(hist.pushes)
            m == Len(hist.pops)
        IN  /\ \A j \in 1 .. m :
                  hist.pops[j] = IF j <= n THEN hist.pushes[n + 1 - j] ELSE 0
            /\ data = SubSeq(hist.pushes, 1, IF m <= n THEN n - m ELSE 0)
            /\ ~fault

\* Two different values were pushed on an empty stack and popped, and one
\* more pop was made on the stack they left empty.
C10_Witness ==
    /\ hist.ok
    /\ Len(hist.pushes) >= 2
    /\ hist.pushes[1] # hist.pushes[2]
    /\ Len(hist.pops) = Len(hist.pushes) + 1
    /\ data = <<>>

Min(a, b) == IF a <= b THEN a ELSE b

\* C11: run_all on a stack with p pending items returns p without faulting
\* and leaves nothing pending; run_until(max) returns min(max, p) without
\* faulting and leaves p - min(max, p) items pending; run_next takes exactly
\* one pending item off (none when nothing is pending) and does not fault.
C11_ExactStepCount ==
    [][/\ RunAll =>
             /\ ~fault'
             /\ ret' = Len(commands)
             /\ commands' = <<>>
       /\ \A max \in 0 .. MaxQueued + 1 :
             RunUntil(max) =>
                 /\ ~fault'
                 /\ ret' = Min(max, Len(commands))
                 /\ Len(commands') = Len(commands) - Min(max, Len(commands))
       /\ RunNext =>
             /\ ~fault'
             /\ Len(commands') = IF commands = <<>> THEN 0 ELSE Len(commands) - 1]_vars

\* What a Prog item does when it is executed: a literal is pushed, a command
\* is run.
ExecItem(s, p, checks) ==
    IF p.cmd = "Lit" THEN PushOp(s, p.d) ELSE RunOp(s, p.cmd, checks)

\* The first k items of prog executed in turn from s; a panic ends it.
RECURSIVE ExecItems(_, _, _, _)
ExecItems(s, prog, k, checks) ==
    IF k = 0 THEN s
    ELSE LET t == ExecItems(s, prog, k - 1, checks)
         IN  IF t.fault THEN t ELSE ExecItem(t, prog[k], checks)

\* C12: after queue_program(P) on a stack with nothing pending and n calls
\* of run_next since, the data stack (and the panic flag) is what executing
\* the first min(n, len(P)) items of P in order leaves from the data stack
\* queue_program was called on, and the items pending are the rest of P:
\* queue_program executes nothing, the i-th run_next executes the i-th item,
\* a run_next with nothing pending changes nothing.
C12_RunNextInOrder ==
    loaded.ok =>
        LET k   == Min(loaded.n, Len(loaded.prog))
            s0  == [data |-> loaded.pre, commands |-> <<>>, fault |-> FALSE]
            end == ExecItems(s0, loaded.prog, k, overflow_checks)
        IN  /\ data = end.data
            /\ fault = end.fault
            /\ ~fault => commands = Reverse(SubSeq(loaded.prog, k + 1, Len(loaded.prog)))

\* A literal and then a command were loaded and executed by two calls of
\* run_next, and a third call found nothing pending.
C12_Witness ==
    /\ loaded.ok /\ ~fault
    /\ Len(loaded.prog) = 2
    /\ loaded.prog[1].cmd = "Lit" /\ loaded.prog[2].cmd = "Sub"
    /\ loaded.n = 3

\* C21: when queue_program(P) was called while items of earlier programs
\* were pending and n steps were taken since (by run_next, run_until or
\* run_all), the data stack (and the panic flag) is what executing the first
\* n items of P followed by the items that were pending, each in its own
\* order, leaves from the data stack queue_program was called on, and the
\* items pending are the rest of that sequence: all of P runs first, then
\* the remaining earlier items, none dropped or reordered.
C21_LaterProgramFirst ==
    stacked.under # <<>> =>
        LET all == stacked.prog \o stacked.under
            s0  == [data |-> stacked.pre, commands |-> <<>>, fault |-> FALSE]
            end == ExecItems(s0, all, stacked.n, overflow_checks)
        IN  /\ data = end.data
            /\ fault = end.fault
            /\ ~fault => commands = Reverse(SubSeq(all, stacked.n + 1, Len(all)))

\* A program of two items was run part-way, two literals were loaded on top
\* of the Sub still pending, and three steps ran the literals and the Sub.
C21_Witness ==
    /\ ~fault
    /\ queued = 4
    /\ stacked.prog = <<D(2), D(-1)>>
    /\ stacked.under = <<C("Sub")>>
    /\ stacked.n = 3
    /\ data = stacked.pre \o <<3>>
    /\ commands = <<>>

\* C13: run(Dup) on any data stack takes a from the top (0 when the stack
\* is empty) and leaves a, a in its place; run(Swap) takes b from the top
\* and a from below it (0 for a missing operand) and leaves b, a in their
\* place, b below a; what was below the operands stays, and neither faults.
C13_DupSwap ==
    (call.fn = "run" /\ call.arg \in {"Dup", "Swap"}) =>
        LET d == call.self
            n == Len(d)
            top  == IF n >= 1 THEN d[n] ELSE 0
            next == IF n >= 2 THEN d[n - 1] ELSE 0
        IN  /\ ~call.out.fault
            /\ call.arg = "Dup" =>
                   call.out.data = SubSeq(d, 1, IF n >= 1 THEN n - 1 ELSE 0) \o <<top, top>>
            /\ call.arg = "Swap" =>
                   call.out.data = SubSeq(d, 1, IF n >= 2 THEN n - 2 ELSE 0) \o <<top, next>>

\* Swap has exchanged two different values that lay on top of a third.
C13_Witness ==
    /\ call.fn = "run" /\ call.arg = "Swap"
    /\ Len(call.self) = 3
    /\ call.self[2] # call.self[3]
    /\ call.out.data = <<call.self[1], call.self[3], call.self[2]>>

\* C15: cross(P, Q) does not fault and returns the first i items of P
\* followed by Q from its item j on (counted from 0), for cut points
\* i < max(len(P), 1) and j < max(len(Q), 1); with P empty the result is Q
\* from item j on.
C15_CrossCuts ==
    call.fn = "cross" =>
        LET P == call.self
            Q == call.other
            cut == call.stop_self
            from == call.start_other
        IN  /\ ~call.fault
            /\ 0 <= cut /\ cut < (IF Len(P) >= 1 THEN Len(P) ELSE 1)
            /\ 0 <= from /\ from < (IF Len(Q) >= 1 THEN Len(Q) ELSE 1)
            /\ Len(call.out) = cut + (Len(Q) - from)
            /\ \A k \in 1 .. Len(call.out) :
                   call.out[k] = IF k <= cut THEN P[k] ELSE Q[from + k - cut]
            /\ P = <<>> => call.out = SubSeq(Q, from + 1, Len(Q))

\* An empty program was crossed with a program of three items, cut after
\* its first.
C15_Witness ==
    /\ call.fn = "cross" /\ ~call.fault
    /\ call.self = <<>>
    /\ Len(call.other) = 3
    /\ call.start_other = 1
    /\ Len(call.out) = 2

\* q with one item put in somewhere is r.
IsInsert(q, r) ==
    /\ Len(r) = Len(q) + 1
    /\ \E k \in 1 .. Len(r) : Remove(r, k) = q

\* r is q with at most one item exchanged for another.
IsReplace(q, r) ==
    /\ Len(r) = Len(q)
    /\ \E k \in 1 .. Len(q) : \A j \in 1 .. Len(q) : j # k => r[j] = q[j]

\* A Prog item: a literal, or one of the six commands.
IsProg(p) ==
    \/ p.cmd = "Lit" /\ p.d \in Int
    \/ p.cmd \in Commands /\ p.d = 0

\* C16: mutate(P) does not fault; the number m of modifications it makes
\* is at least 1 and at most max(len(P) - 1, 1); each modification inserts
\* one item into the intermediate result, deletes one or replaces one, and
\* on an empty intermediate result delete and replace change nothing; the
\* result consists of Prog items throughout, starts as P, is returned after
\* exactly m modifications, and P is what it was.
C16_MutateSteps ==
    /\ [](call.fn = "mutate" =>
             /\ ~call.fault
             /\ 1 <= call.mods
             /\ call.mods <= (IF Len(call.self) - 1 >= 1 THEN Len(call.self) - 1 ELSE 1)
             /\ call.m <= call.mods
             /\ call.m = 0 => call.result = call.self
             /\ call.done => call.m = call.mods
             /\ \A k \in 1 .. Len(call.result) : IsProg(call.result[k]))
    /\ [][(call.fn = "mutate" /\ call'.fn = "mutate") =>
             /\ call'.self = call.self
             /\ call'.mods = call.mods
             /\ \/ /\ call'.m = call.m + 1
                   /\ \/ IsInsert(call.result, call'.result)
                      \/ IsInsert(call'.result, call.result)
                      \/ call.result # <<>> /\ IsReplace(call.result, call'.result)
                      \/ call.result = <<>> /\ call'.result = <<>>
                \/ /\ call'.m = call.m
                   /\ call'.done /\ call'.result = call.result]_vars

\* mutate was called on the empty program and returned the empty program:
\* its one modification was a delete or a replace, which changed nothing.
C16_Witness ==
    /\ call.fn = "mutate" /\ call.done /\ ~call.fault
    /\ call.self = <<>>
    /\ call.mods = 1 /\ call.m = 1
    /\ call.result = <<>>

\* The test cases in which g, run to completion on a fresh stack holding a
\* and b, leaves f(a, b) on top.
CorrectPairs(f, g, checks) ==
    {ab \in Grid \X Grid :
        LET end == RunAllOp(QueueProgramOp(PushOp(PushOp(StackNew, ab[1]), ab[2]), g),
                            checks).s
        IN  ~end.fault /\ PopValue(end) = RefFn(f, ab[1], ab[2])}

\* C17: fitness(f, g) does not fault, and its count of successful test
\* cases is the number of pairs (a, b), a and b in 0 .. 9, for which g, run
\* to completion on a fresh stack holding a and b, leaves f(a, b) on top;
\* for [Add] against a + b that is all 100 pairs, for [-1] none.
C17_FitnessCountsCorrectPairs ==
    call.fn = "fitness" =>
        /\ ~call.fault
        /\ call.total = 100
        /\ call.successful = Cardinality(CorrectPairs(call.f, call.g, overflow_checks))
        /\ (call.f = "add" /\ call.g = <<C("Add")>>) => call.successful = 100
        /\ (call.f = "add" /\ call.g = <<D(-1)>>) => call.successful = 0

\* The pieces of the text between its spaces.
RECURSIVE SplitAtSpaces(_, _, _)
SplitAtSpaces(text, k, piece) ==
    IF k > Len(text) THEN <<piece>>
    ELSE IF text[k] = " " THEN <<piece>> \o SplitAtSpaces(text, k + 1, <<>>)
    ELSE SplitAtSpaces(text, k + 1, Append(piece, text[k]))

\* The number a run of decimal digits stands for.
DigitValue(ch) == CHOOSE v \in 0 .. 9 : DigitChars[v + 1] = ch
RECURSIVE DigitsValue(_, _)
DigitsValue(chars, k) ==
    IF k = 0 THEN 0 ELSE 10 * DigitsValue(chars, k - 1) + DigitValue(chars[k])

\* The text is the signed decimal numeral of d: the digits of |d| without
\* leading zero, behind a minus sign when d < 0 and behind nothing else.
IsDecimalOf(chars, d) ==
    LET body == IF d < 0 THEN Tail(chars) ELSE chars
    IN  /\ chars # <<>>
        /\ d < 0 => chars[1] = "-"
        /\ body # <<>>
        /\ \A k \in 1 .. Len(body) : \E v \in 0 .. 9 : DigitChars[v + 1] = body[k]
        /\ Len(body) > 1 => body[1] # "0"
        /\ DigitsValue(body, Len(body)) = (IF d < 0 THEN -d ELSE d)

\* The token of a command.
CommandToken(c) ==
    CASE c = "Add"  -> <<"+">>
      [] c = "Sub"  -> <<"-">>
      [] c = "Mult" -> <<"*">>
      [] c = "Div"  -> <<"/">>
      [] c = "Dup"  -> <<"d", "u", "p">>
      [] c = "Swap" -> <<"s", "w", "a", "p">>

\* C19: the rendering of the empty program is the empty text; the rendering
\* of a program of n >= 1 items falls at its spaces into exactly n pieces,
\* none of them empty (single spaces between tokens, none before or after),
\* the k-th piece being the signed decimal numeral of the k-th item if it is
\* a literal and its token +, -, *, /, dup, swap if it is a command; and
\* [1, Sub, -30, Dup] renders as "1 - -30 dup".
C19_Rendering ==
    call.fn = "display" =>
        LET P == call.self
            pieces == SplitAtSpaces(call.out, 1, <<>>)
        IN  /\ P = <<>> => call.out = <<>>
            /\ P # <<>> =>
                  /\ Len(pieces) = Len(P)
                  /\ \A k \in 1 .. Len(P) :
                        IF P[k].cmd = "Lit"
                        THEN IsDecimalOf(pieces[k], P[k].d)
                        ELSE pieces[k] = CommandToken(P[k].cmd)
            /\ P = <<D(1), C("Sub"), D(-30), C("Dup")>> =>
                  call.out = <<"1", " ", "-", " ", "-", "3", "0", " ", "d", "u", "p">>

\* [1, Sub, -30, Dup] was rendered.
C19_Witness ==
    /\ call.fn = "display"
    /\ call.self = <<D(1), C("Sub"), D(-30), C("Dup")>>
    /\ Len(call.out) = 11

====
